---- MODULE Spec2Model ----
(***************************************************************************)
(* Model of Poedit's syntax highlighter (src/syntaxhighlighter.cpp):       *)
(* BasicSyntaxHighlighter, RegexSyntaxHighlighter,                         *)
(* CompositeSyntaxHighlighter and the factory SyntaxHighlighter::ForItem.  *)
(*                                                                         *)
(* Strings are sequences over a seven-character alphabet.  Positions in    *)
(* spans are 0-based as in the C++ code; At(str, p) reads code unit p.     *)
(* The six std::wregex patterns are modelled by what they match on this    *)
(* alphabet (see MatchAt).                                                 *)
(***************************************************************************)
EXTENDS Integers, Sequences, FiniteSets, TLC

\* ---------------------------------------------------------------- bounds
\* longest string of an item without a plural form in Spec
MaxLen == 3
\* longest singular string of an item with a plural form in Spec
MaxSingularLen == 1
\* longest string handed to BasicSyntaxHighlighter::Highlight in SpecBasic
MaxBasicLen == 5

\* ------------------------------------------------------------ characters
SP == " "
\* stands for U+00A0, the non-breakable space
NBSP == "~"
BSL == "\\"
Alphabet == {SP, NBSP, BSL, "f", "%", "&", ";"}

StringsUpTo(n) == UNION {[1..m -> Alphabet] : m \in 0..n}

At(str, p) == str[p + 1]

\* ----------------------------------------------------------------- kinds
LeadingWhitespace == "LeadingWhitespace"
Escape == "Escape"
Markup == "Markup"
Placeholder == "Placeholder"
TextKind == {LeadingWhitespace, Escape, Markup, Placeholder}

Span(a, b, kind) == [start |-> a, end |-> b, kind |-> kind]

\* ------------------------------------------------ BasicSyntaxHighlighter
\* u_isblank(): TAB, or a code point of category Zs (SPACE, U+00A0, ...)
IsBlank(c) == c \in {SP, NBSP}

\* variant of EscapeLetters without the backslash label
EscapeLettersNoBackslash == {"0", "a", "b", "f", "n", "r", "t", "v"}

\* the case labels of the switch on the character after a backslash
EscapeLetters == {"0", "a", "b", "f", "n", "r", "t", "v", BSL}

\* value of blank_block_pos while no blank run is open
NoBlock == -1

\* first loop: distance from s.begin() of the first non-blank, or -1 when
\* the loop runs off the end without finding one
RECURSIVE FirstNonBlank(_, _)
FirstNonBlank(str, p) ==
    IF p = Len(str) THEN -1
    ELSE IF ~IsBlank(At(str, p)) THEN p
    ELSE FirstNonBlank(str, p + 1)

\* second loop: distance from s.rbegin() of the last non-blank, or -1
RECURSIVE FirstNonBlankRev(_, _)
FirstNonBlankRev(str, r) ==
    IF r = Len(str) THEN -1
    ELSE IF ~IsBlank(At(str, Len(str) - 1 - r)) THEN r
    ELSE FirstNonBlankRev(str, r + 1)

\* variant of LeadingSpans without the `if (wlen)` test
LeadingSpansNoLengthTest(str) ==
    LET wlen == FirstNonBlank(str, 0)
    IN  IF wlen >= 0 THEN <<Span(0, wlen, LeadingWhitespace)>> ELSE <<>>

\* callbacks of the "Leading whitespace" loop
LeadingSpans(str) ==
    LET wlen == FirstNonBlank(str, 0)
    IN  IF wlen > 0 THEN <<Span(0, wlen, LeadingWhitespace)>> ELSE <<>>

\* variant of TrailingSpans that takes a loop that ran off the end for a
\* run over the whole string
TrailingSpansWholeString(str) ==
    LET r == FirstNonBlankRev(str, 0)
        wlen == IF r = -1 THEN Len(str) ELSE r
    IN  IF wlen > 0
        THEN <<Span(Len(str) - wlen, Len(str), LeadingWhitespace)>>
        ELSE <<>>

\* callbacks of the "Trailing whitespace" loop
TrailingSpans(str) ==
    LET wlen == FirstNonBlankRev(str, 0)
    IN  IF wlen > 0
        THEN <<Span(Len(str) - wlen, Len(str), LeadingWhitespace)>>
        ELSE <<>>

\* the span reported for a non-breakable space at pos
NbspSpan(pos) == Span(pos, pos + 1, LeadingWhitespace)

\* variant of BlankSpans that reports runs of one blank too
BlankSpansFromOne(c, pos, block) ==
    IF c = NBSP THEN <<NbspSpan(pos)>>
    ELSE IF IsBlank(c) THEN <<>>
    ELSE IF block # NoBlock /\ pos - block >= 1
         THEN <<Span(block, pos, LeadingWhitespace)>>
    ELSE <<>>

\* the if / else-if chain at the head of the third loop's body:
\* the callbacks it delivers for character c at pos
BlankSpans(c, pos, block) ==
    IF c = NBSP THEN <<NbspSpan(pos)>>
    ELSE IF IsBlank(c) THEN <<>>
    ELSE IF block # NoBlock /\ pos - block >= 2
         THEN <<Span(block, pos, LeadingWhitespace)>>
    ELSE <<>>

\* variant of BlankBlock that never closes a run
BlankBlockNoReset(c, pos, block) ==
    IF c = NBSP THEN block
    ELSE IF IsBlank(c) THEN (IF block = NoBlock THEN pos ELSE block)
    ELSE block

\* ... and the value it leaves in blank_block_pos
BlankBlock(c, pos, block) ==
    IF c = NBSP THEN block
    ELSE IF IsBlank(c) THEN (IF block = NoBlock THEN pos ELSE block)
    ELSE IF block # NoBlock THEN NoBlock
    ELSE block

\* the switch on the character that follows a backslash at pos
EscapeSpans(next, pos) ==
    IF next \in EscapeLetters THEN <<Span(pos, pos + 2, Escape)>> ELSE <<>>

\* ------------------------------------------------------ pattern library
ErrorCodes == {"error_complexity", "error_stack", "error_backref"}

\* variant of IsAbsorbed without the `case error_stack` label
IsAbsorbedComplexityOnly(code) == code = "error_complexity"

\* the catch handler's switch: codes after which Highlight returns
IsAbsorbed(code) == code \in {"error_complexity", "error_stack"}

\* longest run of characters of set cls starting at position p
RECURSIVE RunLen(_, _, _)
RunLen(str, p, cls) ==
    IF p < Len(str) /\ At(str, p) \in cls
    THEN 1 + RunLen(str, p + 1, cls)
    ELSE 0

\* \w on the alphabet
WordChars == {"f"}

\* (<...>)|(&[^ ;]+;) : without '<' only the entity alternative matches
HtmlAt(str, p) ==
    LET n == RunLen(str, p + 1, Alphabet \ {SP, ";"})
    IN  IF At(str, p) = "&" /\ n >= 1 /\ p + 1 + n < Len(str)
           /\ At(str, p + 1 + n) = ";"
        THEN n + 2 ELSE -1

\* %[\w.-]+% tried first, the unterminated [@%][\w-]+ last
CommonAt(str, p) ==
    LET n == RunLen(str, p + 1, WordChars)
    IN  IF At(str, p) # "%" \/ n = 0 THEN -1
        ELSE IF p + 1 + n < Len(str) /\ At(str, p + 1 + n) = "%" THEN n + 2
        ELSE n + 1

\* % [-+ #0]{0,maxFlags} conversion : ' ' is the only flag and
\* '%', 'f' the only conversions of the alphabet
PrintfAt(str, p, maxFlags) ==
    LET n == RunLen(str, p + 1, {SP})
    IN  IF At(str, p) = "%" /\ n <= maxFlags /\ p + 1 + n < Len(str)
           /\ At(str, p + 1 + n) \in {"%", "f"}
        THEN n + 2 ELSE -1

Patterns == {"RE_HTML_MARKUP", "RE_COMMON_PLACEHOLDERS", "RE_PHP_FORMAT",
             "RE_C_FORMAT", "RE_PYTHON_FORMAT", "RE_RUBY_FORMAT"}

\* length of the match of pattern re that starts at position p, -1 if none
MatchAt(re, str, p) ==
    CASE re = "RE_HTML_MARKUP" -> HtmlAt(str, p)
      [] re = "RE_COMMON_PLACEHOLDERS" -> CommonAt(str, p)
      [] re = "RE_PHP_FORMAT" -> PrintfAt(str, p, 1)
      [] re = "RE_C_FORMAT" -> PrintfAt(str, p, 5)
      [] re = "RE_PYTHON_FORMAT" -> PrintfAt(str, p, 1)
      [] re = "RE_RUBY_FORMAT" -> PrintfAt(str, p, 5)

\* leftmost match at or after position from: its position, or -1 (the end
\* iterator) when there is none
RECURSIVE SearchFrom(_, _, _)
SearchFrom(re, str, from) ==
    IF from >= Len(str) THEN -1
    ELSE IF MatchAt(re, str, from) >= 0 THEN from
    ELSE SearchFrom(re, str, from + 1)

\* std::regex_search(str, re)
RegexSearch(str, re) == SearchFrom(re, str, 0) >= 0

\* ------------------------------------------------ SyntaxHighlighter::ForItem
\* the shared (function-local static) highlighters
Highlighters == {"basic", "html", "placeholders", "php_format", "c_format",
                 "python_format", "ruby_format"}

\* m_re of each RegexSyntaxHighlighter
PatternOf(h) ==
    CASE h = "html" -> "RE_HTML_MARKUP"
      [] h = "placeholders" -> "RE_COMMON_PLACEHOLDERS"
      [] h = "php_format" -> "RE_PHP_FORMAT"
      [] h = "c_format" -> "RE_C_FORMAT"
      [] h = "python_format" -> "RE_PYTHON_FORMAT"
      [] h = "ruby_format" -> "RE_RUBY_FORMAT"

\* m_kind of each RegexSyntaxHighlighter
KindOf(h) == IF h = "html" THEN Markup ELSE Placeholder

\* CompositeSyntaxHighlighter::Add
Add(all, h) == Append(all, h)

NeedsHTML(it, mask) ==
    /\ Markup \in mask
    /\ \/ RegexSearch(it.string, "RE_HTML_MARKUP")
       \/ it.hasPlural /\ RegexSearch(it.plural, "RE_HTML_MARKUP")

NeedsGenericPlaceholders(it, mask) ==
    /\ Placeholder \in mask
    /\ \/ RegexSearch(it.string, "RE_COMMON_PLACEHOLDERS")
       \/ it.hasPlural /\ RegexSearch(it.plural, "RE_COMMON_PLACEHOLDERS")

\* kindsMask & (LeadingWhitespace | Escape)
WantsBasic(mask) == mask \cap {LeadingWhitespace, Escape} # {}

\* the if / else-if chain on formatFlag
FormatHighlighter(formatFlag) ==
    CASE formatFlag = "php" -> <<"php_format">>
      [] formatFlag = "c" -> <<"c_format">>
      [] formatFlag = "python" -> <<"python_format">>
      [] formatFlag = "ruby" -> <<"ruby_format">>
      [] OTHER -> <<>>

\* variant of ReturnsEarly without the formatFlag.empty() test
ReturnsEarlyAnyFormat(it, mask) ==
    ~NeedsHTML(it, mask) /\ ~NeedsGenericPlaceholders(it, mask)

\* the early return: no composite is built
ReturnsEarly(it, mask) ==
    ~NeedsHTML(it, mask) /\ ~NeedsGenericPlaceholders(it, mask)
    /\ it.formatFlag = ""

\* variant of BuildComposite that adds `basic` first
BuildCompositeBasicFirst(it, mask) ==
    LET a0 == IF WantsBasic(mask) THEN Add(<<>>, "basic") ELSE <<>>
        a1 == IF NeedsHTML(it, mask) THEN Add(a0, "html") ELSE a0
        a2 == IF NeedsGenericPlaceholders(it, mask)
              THEN Add(a1, "placeholders") ELSE a1
        a3 == IF Placeholder \in mask
              THEN a2 \o FormatHighlighter(it.formatFlag) ELSE a2
    IN  a3

\* the composite assembled after the early return was not taken
BuildComposite(it, mask) ==
    LET a0 == <<>>
        a1 == IF NeedsHTML(it, mask) THEN Add(a0, "html") ELSE a0
        a2 == IF NeedsGenericPlaceholders(it, mask)
              THEN Add(a1, "placeholders") ELSE a1
        a3 == IF Placeholder \in mask
              THEN a2 \o FormatHighlighter(it.formatFlag) ELSE a2
        a4 == IF WantsBasic(mask) THEN Add(a3, "basic") ELSE a3
    IN  a4

\* the value ForItem returns when no regex_search throws
ForItemResult(it, mask) ==
    IF ReturnsEarly(it, mask)
    THEN IF WantsBasic(mask)
         THEN [type |-> "basic", sub |-> <<>>]
         ELSE [type |-> "nullptr", sub |-> <<>>]
    ELSE [type |-> "composite", sub |-> BuildComposite(it, mask)]

\* ForItem calls std::regex_search at least once
Sniffs(mask) == Markup \in mask \/ Placeholder \in mask

\* the highlighters a call of Highlight on matcher m runs, in order
Subs(m) == IF m.type = "basic" THEN <<"basic">> ELSE m.sub

\* ------------------------------------------------------------------ state
VARIABLES item, kindsMask, pc, matcher, s, out, k, i, blank_block_pos,
          next, exc, base, fwdBase

vars == <<item, kindsMask, pc, matcher, s, out, k, i, blank_block_pos,
          next, exc, base, fwdBase>>

Formats == {"", "c", "php", "python", "ruby", "lua"}
\* a plural form with an entity, two format specifiers and an escape
PluralStrings == {<<"&", "%", "f", "%", "f", ";", BSL, "f">>}
\* every combination of Markup, Placeholder and a structural kind
Masks == {{}, {LeadingWhitespace}, {Markup}, {Placeholder},
          {Markup, Placeholder}, {Markup, Escape},
          {Placeholder, LeadingWhitespace, Escape}, TextKind}
Unset == [type |-> "unset", sub |-> <<>>]

Items ==
    {[string |-> str, plural |-> <<>>, hasPlural |-> FALSE, formatFlag |-> f] :
        str \in StringsUpTo(MaxLen), f \in Formats}
    \cup
    {[string |-> str, plural |-> pl, hasPlural |-> TRUE, formatFlag |-> f] :
        str \in StringsUpTo(MaxSingularLen), pl \in PluralStrings, f \in Formats}

\* the consumer is about to ask ForItem for a highlighter
Init ==
    /\ item \in Items
    /\ kindsMask \in Masks
    /\ pc = "ForItem"
    /\ matcher = Unset
    /\ s = <<>>
    /\ out = <<>>
    /\ k = 1
    /\ i = 0
    /\ blank_block_pos = NoBlock
    /\ next = -1
    /\ exc = "none"
    /\ base = 0
    /\ fwdBase = 0

\* ForItem returns a highlighter (or nullptr)
ForItem ==
    /\ pc = "ForItem"
    /\ matcher' = ForItemResult(item, kindsMask)
    /\ pc' = "selected"
    /\ UNCHANGED <<item, kindsMask, s, out, k, i, blank_block_pos, next, exc,
                   base, fwdBase>>

\* one of ForItem's regex_search calls throws std::regex_error; ForItem has
\* no handler, so the exception leaves it
ForItemThrows ==
    /\ pc = "ForItem"
    /\ Sniffs(kindsMask)
    /\ \E code \in ErrorCodes : exc' = code
    /\ pc' = "ForItemThrew"
    /\ UNCHANGED <<item, kindsMask, matcher, s, out, k, i, blank_block_pos,
                   next, base, fwdBase>>

\* the consumer calls Highlight on the returned highlighter, for the
\* item's string or for its plural
CallHighlight ==
    /\ pc = "selected"
    /\ matcher.type \in {"basic", "composite"}
    /\ \E str \in {item.string} \cup
                  (IF item.hasPlural THEN {item.plural} ELSE {}) : s' = str
    /\ out' = <<>>
    /\ k' = 1
    /\ pc' = "Highlight"
    /\ UNCHANGED <<item, kindsMask, matcher, i, blank_block_pos, next, exc,
                   base, fwdBase>>

\* a sub-highlighter's Highlight returns: the composite's loop moves on
ReturnFromSub ==
    /\ pc' = "Highlight"
    /\ k' = k + 1

\* every sub-highlighter has run: Highlight returns to the consumer
HighlightReturns ==
    /\ pc = "Highlight"
    /\ k > Len(Subs(matcher))
    /\ pc' = "done"
    /\ UNCHANGED <<item, kindsMask, matcher, s, out, k, i, blank_block_pos,
                   next, exc, base, fwdBase>>

\* BasicSyntaxHighlighter::Highlight is entered; an empty string returns
BasicEnter ==
    /\ pc = "Highlight"
    /\ k <= Len(Subs(matcher))
    /\ Subs(matcher)[k] = "basic"
    /\ base' = Len(out)
    /\ IF s = <<>>
       THEN ReturnFromSub
       ELSE pc' = "lead" /\ k' = k
    /\ UNCHANGED <<item, kindsMask, matcher, s, out, i, blank_block_pos, next,
                   exc, fwdBase>>

\* the "Leading whitespace" loop
LeadingScan ==
    /\ pc = "lead"
    /\ out' = out \o LeadingSpans(s)
    /\ pc' = "trail"
    /\ UNCHANGED <<item, kindsMask, matcher, s, k, i, blank_block_pos, next,
                   exc, base, fwdBase>>

\* the "Trailing whitespace" loop, and the third loop's initialisation
TrailingScan ==
    /\ pc = "trail"
    /\ out' = out \o TrailingSpans(s)
    /\ blank_block_pos' = NoBlock
    /\ i' = 0
    /\ fwdBase' = Len(out')
    /\ pc' = "fwd"
    /\ UNCHANGED <<item, kindsMask, matcher, s, k, next, exc, base>>

\* one iteration of the third loop
ForwardIter ==
    /\ pc = "fwd"
    /\ i < Len(s)
    /\ LET c == At(s, i)
           out1 == out \o BlankSpans(c, i, blank_block_pos)
       IN  /\ blank_block_pos' = BlankBlock(c, i, blank_block_pos)
           /\ IF c = BSL
              THEN IF i + 1 = Len(s)
                   THEN /\ out' = out1
                        /\ i' = i + 1
                        /\ ReturnFromSub
                   ELSE /\ out' = out1 \o EscapeSpans(At(s, i + 1), i)
                        /\ i' = i + 2
                        /\ UNCHANGED <<pc, k>>
              ELSE /\ out' = out1
                   /\ i' = i + 1
                   /\ UNCHANGED <<pc, k>>
    /\ UNCHANGED <<item, kindsMask, matcher, s, next, exc, base, fwdBase>>

\* the third loop ends at s.end()
ForwardEnd ==
    /\ pc = "fwd"
    /\ i = Len(s)
    /\ ReturnFromSub
    /\ UNCHANGED <<item, kindsMask, matcher, s, out, i, blank_block_pos, next,
                   exc, base, fwdBase>>

\* RegexSyntaxHighlighter::Highlight is entered: the iterator's constructor
\* searches for the first match, or throws
RegexEnter ==
    /\ pc = "Highlight"
    /\ k <= Len(Subs(matcher))
    /\ Subs(matcher)[k] # "basic"
    /\ base' = Len(out)
    /\ \/ /\ next' = SearchFrom(PatternOf(Subs(matcher)[k]), s, 0)
          /\ pc' = "regex"
          /\ exc' = exc
       \/ /\ \E code \in ErrorCodes : exc' = code
          /\ next' = -1
          /\ pc' = "catch"
    /\ UNCHANGED <<item, kindsMask, matcher, s, out, k, i, blank_block_pos,
                   fwdBase>>

\* one iteration of the while loop: `*next++` copies the current match and
\* searches for the following one (which may throw) before highlight() runs.
\* match.empty() is false for every match a valid iterator yields.
RegexIter ==
    /\ pc = "regex"
    /\ next # -1
    /\ LET re == PatternOf(Subs(matcher)[k])
           pos == next
           len == MatchAt(re, s, pos)
       IN  \/ /\ next' = SearchFrom(re, s, pos + len)
              /\ out' = Append(out, Span(pos, pos + len, KindOf(Subs(matcher)[k])))
              /\ UNCHANGED <<pc, exc>>
           \/ /\ \E code \in ErrorCodes : exc' = code
              /\ next' = -1
              /\ pc' = "catch"
              /\ out' = out
    /\ UNCHANGED <<item, kindsMask, matcher, s, k, i, blank_block_pos, base,
                   fwdBase>>

\* next == end: the while loop and the try block end
RegexEnd ==
    /\ pc = "regex"
    /\ next = -1
    /\ ReturnFromSub
    /\ UNCHANGED <<item, kindsMask, matcher, s, out, i, blank_block_pos, next,
                   exc, base, fwdBase>>

\* catch (std::regex_error& e): return for the two resource codes, rethrow
\* otherwise; the composite's loop has no handler
Catch ==
    /\ pc = "catch"
    /\ IF IsAbsorbed(exc)
       THEN ReturnFromSub /\ exc' = "none"
       ELSE pc' = "HighlightThrew" /\ UNCHANGED <<k, exc>>
    /\ UNCHANGED <<item, kindsMask, matcher, s, out, i, blank_block_pos, next,
                   base, fwdBase>>

Next ==
    \/ ForItem
    \/ ForItemThrows
    \/ CallHighlight
    \/ HighlightReturns
    \/ BasicEnter
    \/ LeadingScan
    \/ TrailingScan
    \/ ForwardIter
    \/ ForwardEnd
    \/ RegexEnter
    \/ RegexIter
    \/ RegexEnd
    \/ Catch

Spec == Init /\ [][Next]_vars

\* BasicSyntaxHighlighter::Highlight called directly on a string: the state
\* after ForItem returned `basic` and the consumer called Highlight
InitBasic ==
    /\ \E str \in StringsUpTo(MaxBasicLen) :
          /\ s = str
          /\ item = [string |-> str, plural |-> <<>>, hasPlural |-> FALSE,
                     formatFlag |-> ""]
    /\ kindsMask = {LeadingWhitespace, Escape}
    /\ pc = "Highlight"
    /\ matcher = [type |-> "basic", sub |-> <<>>]
    /\ out = <<>>
    /\ k = 1
    /\ i = 0
    /\ blank_block_pos = NoBlock
    /\ next = -1
    /\ exc = "none"
    /\ base = 0
    /\ fwdBase = 0

NextBasic ==
    \/ HighlightReturns
    \/ BasicEnter
    \/ LeadingScan
    \/ TrailingScan
    \/ ForwardIter
    \/ ForwardEnd

SpecBasic == InitBasic /\ [][NextBasic]_vars

\* ================================================================ claims
\* what the claims call blank, the escape letters and resource exhaustion,
\* written out independently of the model's definitions
ClaimBlank == {SP, NBSP}
ClaimEscapeLetters == {"0", "a", "b", "f", "n", "r", "t", "v", BSL}
ClaimExhaustion == {"error_complexity", "error_stack"}

Positions == 0..(Len(s) - 1)
\* the callbacks of the structural matcher's forward pass
FwdOut == SubSeq(out, fwdBase + 1, Len(out))
FwdSet == {FwdOut[j] : j \in 1..Len(FwdOut)}

\* ---------------------------------------------------------------- C1
\* C1: every delivered callback (start, end, kind) has
\* 0 <= start < end <= length(s), whichever matcher delivered it.
C1_SpanBounds ==
    \A j \in 1..Len(out) :
        0 <= out[j].start /\ out[j].start < out[j].end /\ out[j].end <= Len(s)

\* a composite with the structural matcher has finished on a string that
\* ends in a backslash and has delivered a Placeholder span
C1_Witness ==
    /\ pc = "done"
    /\ matcher.type = "composite"
    /\ \E j \in 1..Len(matcher.sub) : matcher.sub[j] = "basic"
    /\ Len(s) > 0 /\ At(s, Len(s) - 1) = BSL
    /\ \E j \in 1..Len(out) : out[j].kind = Placeholder

\* ---------------------------------------------------------------- C2
\* C2 (as claimed): the callbacks of one invocation of the structural
\* matcher have strictly increasing start positions.
C2_StrictlyIncreasingStart ==
    \A j \in 2..Len(out) : out[j].start > out[j - 1].start

\* C2 (amended): the leading-edge and trailing-edge spans come first, in
\* that order; the forward pass then delivers its callbacks with
\* non-decreasing end positions, and with strictly increasing start
\* positions when the string holds no U+00A0.
C2_ForwardPassOrder ==
    pc \in {"fwd", "Highlight", "done"} =>
        /\ fwdBase <= 2
        /\ \A j \in 2..fwdBase : out[j].start > out[j - 1].start
        /\ \A j \in 2..Len(FwdOut) : FwdOut[j].end >= FwdOut[j - 1].end
        /\ (\A p \in Positions : At(s, p) # NBSP) =>
              \A j \in 2..Len(FwdOut) : FwdOut[j].start > FwdOut[j - 1].start

\* an edge span followed by two forward-pass spans
C2_Witness ==
    pc = "done" /\ fwdBase >= 1 /\ Len(FwdOut) >= 2

\* ---------------------------------------------------------------- C3
\* s is a spaces, a body without blank, U+00A0 or backslash, b spaces
EdgeShape(a, b) ==
    /\ a >= 1 /\ b >= 1 /\ a + b < Len(s)
    /\ \A p \in Positions :
          IF p < a \/ p >= Len(s) - b
          THEN At(s, p) = SP
          ELSE At(s, p) \notin {SP, NBSP, BSL}

\* C3 (as claimed): for such a string exactly the two edge spans are
\* delivered.
C3_ExactlyTwoSpans ==
    pc = "done" =>
        \A a \in 1..Len(s), b \in 1..Len(s) :
            EdgeShape(a, b) =>
                out = <<Span(0, a, LeadingWhitespace),
                        Span(Len(s) - b, Len(s), LeadingWhitespace)>>

\* C3 (amended): the two edge spans are delivered first; the forward
\* pass delivers the leading run [0, a) once more when a >= 2 and
\* nothing when a = 1; the trailing run is never delivered again.
C3_LeadingRunTwice ==
    pc = "done" =>
        \A a \in 1..Len(s), b \in 1..Len(s) :
            EdgeShape(a, b) =>
                out = <<Span(0, a, LeadingWhitespace),
                        Span(Len(s) - b, Len(s), LeadingWhitespace)>>
                      \o (IF a >= 2
                          THEN <<Span(0, a, LeadingWhitespace)>>
                          ELSE <<>>)

\* two spaces, a body, one space: three callbacks
C3_Witness ==
    pc = "done" /\ EdgeShape(2, 1) /\ Len(out) = 3

\* ---------------------------------------------------------------- C4
SniffedMarkup ==
    /\ Markup \in kindsMask
    /\ \/ RegexSearch(item.string, "RE_HTML_MARKUP")
       \/ item.hasPlural /\ RegexSearch(item.plural, "RE_HTML_MARKUP")
SniffedGeneric ==
    /\ Placeholder \in kindsMask
    /\ \/ RegexSearch(item.string, "RE_COMMON_PLACEHOLDERS")
       \/ item.hasPlural /\ RegexSearch(item.plural, "RE_COMMON_PLACEHOLDERS")
KnownFormats == {"php", "c", "python", "ruby"}
WantsLanguage == Placeholder \in kindsMask /\ item.formatFlag \in KnownFormats
WantsStructural == LeadingWhitespace \in kindsMask \/ Escape \in kindsMask
NothingToAdd ==
    ~SniffedMarkup /\ ~SniffedGeneric /\ ~WantsLanguage /\ ~WantsStructural
Returned == pc \notin {"ForItem", "ForItemThrew"}

\* C4 (as claimed): with an empty mask, or with nothing for steps 5a-5d
\* to add, the selector returns no matcher.
C4_NoneWhenNothingNeeded ==
    Returned /\ (kindsMask = {} \/ NothingToAdd) => matcher.type = "nullptr"

\* C4 (amended): the selector returns no matcher exactly when nothing was
\* sniffed, the format kind is empty and the mask has no structural kind;
\* with nothing to add and a non-empty format kind it returns a composite
\* whose list is empty.
C4_NoneOnlyWithEmptyFormat ==
    Returned =>
        /\ matcher.type = "nullptr" <=>
              /\ ~SniffedMarkup /\ ~SniffedGeneric
              /\ item.formatFlag = "" /\ ~WantsStructural
        /\ NothingToAdd /\ item.formatFlag # "" =>
              matcher = [type |-> "composite", sub |-> <<>>]
        /\ matcher.type \in {"nullptr", "basic", "composite"}

\* empty format kind, nothing sniffed, a mask of only Placeholder
C4_Witness ==
    /\ pc = "selected"
    /\ matcher.type = "nullptr"
    /\ kindsMask = {Placeholder}
    /\ item.formatFlag = ""
    /\ Len(item.string) > 0

\* ---------------------------------------------------------------- C5
Rank(h) ==
    CASE h = "html" -> 1
      [] h = "placeholders" -> 2
      [] h \in {"php_format", "c_format", "python_format", "ruby_format"} -> 3
      [] h = "basic" -> 4
LanguageOf(h) ==
    CASE h = "php_format" -> "php"
      [] h = "c_format" -> "c"
      [] h = "python_format" -> "python"
      [] h = "ruby_format" -> "ruby"
      [] OTHER -> "none"
KindRank(kind) ==
    CASE kind = Markup -> 1
      [] kind = Placeholder -> 2
      [] OTHER -> 3

C6_ExhaustionAbsorbed ==
    [][/\ pc = "catch" /\ exc \in ClaimExhaustion =>
              out' = out /\ pc' = "Highlight" /\ k' = k + 1
       /\ pc = "catch" /\ exc \notin ClaimExhaustion =>
              out' = out /\ pc' = "HighlightThrew" /\ exc' = exc
       /\ pc' = "catch" => out' = out /\ k' = k
       /\ pc' = "HighlightThrew" => pc = "catch" /\ exc \notin ClaimExhaustion
       /\ pc \in {"Highlight", "regex", "catch"} => k' >= k
      ]_vars

\* the engine gave up after this pattern matcher had delivered a span
C6_Witness ==
    pc = "catch" /\ exc \in ClaimExhaustion /\ Len(out) > base

\* ---------------------------------------------------------------- C7
\* C7 (as claimed): no public operation ends in an error because of a
\* complexity or stack-limit failure.
C7_ExhaustionNeverSurfaces ==
    pc \in {"ForItemThrew", "HighlightThrew"} => exc \notin ClaimExhaustion

\* ---------------------------------------------------------------- C8
\* C8 (as claimed): the forward pass delivers [p, p+1) LeadingWhitespace
\* for every position p that holds U+00A0.
C8_NbspAlwaysEmitted ==
    pc = "done" =>
        \A p \in Positions :
            At(s, p) = NBSP => Span(p, p + 1, LeadingWhitespace) \in FwdSet

\* ---------------------------------------------------------------- C9
LeadingBlanks == Cardinality({p \in Positions : \A q \in 0..p : At(s, q) \in ClaimBlank})
TrailingBlanks ==
    Cardinality({p \in Positions : \A q \in p..(Len(s) - 1) : At(s, q) \in ClaimBlank})

\* C9: with a non-blank in s the leading-edge span [0, a) and the
\* trailing-edge span [length-b, length) are disjoint, a + b < length;
\* an all-blank s gets neither.
C9_EdgeSpansDisjoint ==
    pc \in {"fwd", "done"} =>
        LET edge == SubSeq(out, 1, fwdBase)
            a == LeadingBlanks
            b == TrailingBlanks
        IN  IF \A p \in Positions : At(s, p) \in ClaimBlank
            THEN edge = <<>>
            ELSE /\ a + b < Len(s)
                 /\ edge = (IF a > 0 THEN <<Span(0, a, LeadingWhitespace)>>
                            ELSE <<>>)
                           \o (IF b > 0
                               THEN <<Span(Len(s) - b, Len(s), LeadingWhitespace)>>
                               ELSE <<>>)
                 /\ \A j \in 2..Len(edge) : edge[j - 1].end <= edge[j].start

\* both edge spans were delivered
C9_Witness ==
    pc = "done" /\ fwdBase = 2 /\ LeadingBlanks >= 1 /\ TrailingBlanks >= 1

\* --------------------------------------------------------------- C10
\* position p is the second character of a backslash pair
RECURSIVE Consumed(_)
Consumed(p) == p >= 1 /\ At(s, p - 1) = BSL /\ ~Consumed(p - 1)

====
